---- MODULE Spec2Model ----
(***************************************************************************)
(* Model of tfx/types/artifact_utils.py: the split-name codec, the         *)
(* single-artifact resolvers and the artifact-dict JSON codec.             *)
(*                                                                         *)
(* Text values are sequences of one-character strings, so that joining,    *)
(* splitting, regular-expression matching and path joining are computed    *)
(* character by character as the Python code computes them.                *)
(*                                                                         *)
(* Every function of the module is pure.  The state machine records one    *)
(* call at a time: `op` is the function called, `arg` its arguments, `res` *)
(* its outcome (a returned value or a raised exception) and `prev` the     *)
(* call made before it, when the call is made on the outcome or on a       *)
(* variation of the arguments of that earlier call.                        *)
(***************************************************************************)
EXTENDS Integers, Sequences, FiniteSets, TLC

VARIABLES op, arg, res, prev

vars == <<op, arg, res, prev>>

\* ------------------------------------------------------------------ bounds
\* Longest list of split names, longest text (in characters) and longest
\* list of artifacts the calls are made with.
MaxSplits == 2
MaxTextLen == 3
MaxArtifacts == 2
\* Longest list of one channel of an artifact dict, and longest text (in
\* tokens) among the arbitrary texts given to the JSON parser.
MaxEntries == 2
MaxTokens == 3

\* ------------------------------------------------------- outcomes of a call
Return(v) == [ok |-> TRUE, val |-> v]

Raise(e) == [ok |-> FALSE, err |-> e]

NoCall == [op |-> "none"]

\* -------------------------------------------------------------- characters
NL == "\n"

Comma == ","

Sep == "/"

\* The members of [A-Za-z0-9] in the alphabet of the model.
AlnumChars == {"a", "1"}

\* The members of [A-Za-z0-9_-] in the alphabet of the model.
NameChars == AlnumChars \cup {"_", "-"}

Chars == NameChars \cup {Comma, NL, "!"}

\* The sequences of exactly n elements of S.
SeqsOfLen(S, n) == [1..n -> S]

\* ---------------------------------------------------------- split-name codec
\* str.join: the elements with `delim` between consecutive ones.
RECURSIVE StrJoin(_, _)
StrJoin(delim, parts) ==
  IF Len(parts) = 0 THEN <<>>
  ELSE IF Len(parts) = 1 THEN parts[1]
  ELSE parts[1] \o <<delim>> \o StrJoin(delim, Tail(parts))

RECURSIVE StrConcat(_)
StrConcat(parts) ==
  IF Len(parts) = 0 THEN <<>> ELSE parts[1] \o StrConcat(Tail(parts))

\* str.split(delim): cut at every occurrence of delim; n delimiters give
\* n + 1 tokens, empty ones included.
RECURSIVE StrSplit(_, _)
StrSplit(s, delim) ==
  IF \A i \in 1..Len(s) : s[i] # delim THEN <<s>>
  ELSE LET k == CHOOSE i \in 1..Len(s) :
                   s[i] = delim /\ \A j \in 1..(i - 1) : s[j] # delim
       IN <<SubSeq(s, 1, k - 1)>> \o StrSplit(SubSeq(s, k + 1, Len(s)), delim)

\* re.match('^[A-Za-z0-9][A-Za-z0-9_-]*$', s).  Without re.MULTILINE, '$'
\* matches at the end of the string and also just before a newline that is
\* the last character of the string.
ReMatchSplitName(s) ==
  \E n \in 1..Len(s) :
    /\ s[1] \in AlnumChars
    /\ \A i \in 2..n : s[i] \in NameChars
    /\ \/ n = Len(s)
       \/ n = Len(s) - 1 /\ s[Len(s)] = NL

\* The values an error message is formatted from, each written
\* <<type, content>>.
PyStr(s) == <<"str", s>>

PyInt(n) == <<"int", n>>

PyList(l) == <<"list", l>>

SplitNameError(split) ==
  [kind |-> "ValueError", what |-> "split name", args |-> <<PyStr(split)>>]

\* Mutant: ''.join(splits), the names run together with no delimiter.
encode_split_names_no_delimiter(splits) ==
  IF \E i \in 1..Len(splits) : ~ReMatchSplitName(splits[i])
  THEN LET k == CHOOSE i \in 1..Len(splits) :
                   ~ReMatchSplitName(splits[i])
                   /\ \A j \in 1..(i - 1) : ReMatchSplitName(splits[j])
       IN Raise(SplitNameError(splits[k]))
  ELSE Return(StrConcat(splits))

encode_split_names(splits) ==
  IF \E i \in 1..Len(splits) : ~ReMatchSplitName(splits[i])
  THEN LET k == CHOOSE i \in 1..Len(splits) :
                   ~ReMatchSplitName(splits[i])
                   /\ \A j \in 1..(i - 1) : ReMatchSplitName(splits[j])
       IN Raise(SplitNameError(splits[k]))
  ELSE Return(StrJoin(Comma, splits))

\* Mutant: the empty string is split like any other, giving [''].
decode_split_names_always_split(split_names) == StrSplit(split_names, Comma)

decode_split_names(split_names) ==
  IF Len(split_names) = 0 THEN <<>>
  ELSE StrSplit(split_names, Comma)

\* ------------------------------------------------------ artifact resolvers
\* An Artifact, as far as this module reads it: its uri and its split_names
\* property.
Artifact(uri, split_names) == [uri |-> uri, split_names |-> split_names]

ListLengthError(n) ==
  [kind |-> "ValueError", what |-> "list length", args |-> <<PyInt(n)>>]

SplitMatchError(split, matching_artifacts) ==
  [kind |-> "ValueError", what |-> "split match",
   args |-> <<PyStr(split), PyList(matching_artifacts)>>]

\* Mutant: only the empty list is refused.
get_single_instance_nonempty(artifact_list) ==
  IF Len(artifact_list) < 1
  THEN Raise(ListLengthError(Len(artifact_list)))
  ELSE Return(artifact_list[1])

get_single_instance(artifact_list) ==
  IF Len(artifact_list) # 1
  THEN Raise(ListLengthError(Len(artifact_list)))
  ELSE Return(artifact_list[1])

get_single_uri(artifact_list) ==
  LET r == get_single_instance(artifact_list)
  IN IF r.ok THEN Return(r.val.uri) ELSE r

\* `x in list`.
InList(x, list) == \E i \in 1..Len(list) : list[i] = x

\* Mutant: a separator is always put between the two.
PathJoinAlwaysSep(a, b) == a \o <<Sep>> \o b

\* posixpath.join(a, b) for one component b.
PathJoin(a, b) ==
  IF Len(b) > 0 /\ b[1] = Sep THEN b
  ELSE IF Len(a) = 0 \/ a[Len(a)] = Sep THEN a \o b
  ELSE a \o <<Sep>> \o b

IsSubstring(x, s) ==
  \E i \in 1..(Len(s) + 1) :
    i + Len(x) - 1 <= Len(s) /\ SubSeq(s, i, i + Len(x) - 1) = x

\* Mutant: `split in artifact.split_names`, on the undecoded string.
MatchingArtifactsSubstring(artifact_list, split) ==
  SelectSeq(artifact_list,
            LAMBDA artifact : IsSubstring(split, artifact.split_names))

MatchingArtifacts(artifact_list, split) ==
  SelectSeq(artifact_list,
            LAMBDA artifact : InList(split, decode_split_names(artifact.split_names)))

\* Mutant: with several matching artifacts the first one is taken.
get_split_uri_first_match(artifact_list, split) ==
  LET matching_artifacts == MatchingArtifacts(artifact_list, split)
  IN IF Len(matching_artifacts) < 1
     THEN Raise(SplitMatchError(split, matching_artifacts))
     ELSE Return(PathJoin(matching_artifacts[1].uri, split))

get_split_uri(artifact_list, split) ==
  LET matching_artifacts == MatchingArtifacts(artifact_list, split)
  IN IF Len(matching_artifacts) # 1
     THEN Raise(SplitMatchError(split, matching_artifacts))
     ELSE Return(PathJoin(matching_artifacts[1].uri, split))

\* -------------------------------------------------------------- JSON values
\* What json.loads returns and json.dumps takes: a string, a number, a
\* literal, a list, or a dict, each written <<type, content>>.  A dict is
\* the sequence of its <<key, value>> pairs in insertion order, with no key
\* twice.
JStr(s) == <<"str", s>>

JNum(digits) == <<"num", digits>>

JLit(word) == <<"lit", word>>

JArr(items) == <<"arr", items>>

JObj(pairs) == <<"obj", pairs>>

HasKey(pairs, k) == \E i \in 1..Len(pairs) : pairs[i][1] = k

DictGet(pairs, k) ==
  pairs[CHOOSE i \in 1..Len(pairs) : pairs[i][1] = k][2]

\* d[k] = v: a new key goes last, a key already there keeps its place.
DictSet(pairs, k, v) ==
  IF HasKey(pairs, k)
  THEN [i \in 1..Len(pairs) |-> IF pairs[i][1] = k THEN <<k, v>> ELSE pairs[i]]
  ELSE Append(pairs, <<k, v>>)

\* JSON text is the sequence of its tokens: the six punctuation marks, the
\* scalars, and Junk for characters that begin no JSON token.
Punct(c) == <<"punct", <<c>>>>

Junk == <<"junk", <<"?">>>>

IsScalar(x) == x[1] \in {"str", "num", "lit"}

RECURSIVE json_dumps(_)
RECURSIVE DumpItems(_)
RECURSIVE DumpPairs(_)
\* json.dumps
json_dumps(x) ==
  IF x[1] = "arr" THEN <<Punct("[")>> \o DumpItems(x[2]) \o <<Punct("]")>>
  ELSE IF x[1] = "obj" THEN <<Punct("{")>> \o DumpPairs(x[2]) \o <<Punct("}")>>
  ELSE <<x>>

DumpItems(items) ==
  IF Len(items) = 0 THEN <<>>
  ELSE IF Len(items) = 1 THEN json_dumps(items[1])
  ELSE json_dumps(items[1]) \o <<Punct(",")>> \o DumpItems(Tail(items))

DumpPairs(pairs) ==
  LET first == <<JStr(pairs[1][1]), Punct(":")>> \o json_dumps(pairs[1][2])
  IN IF Len(pairs) = 0 THEN <<>>
     ELSE IF Len(pairs) = 1 THEN first
     ELSE first \o <<Punct(",")>> \o DumpPairs(Tail(pairs))

JSONDecodeError == [kind |-> "JSONDecodeError", what |-> "json text", args |-> <<>>]

Parsed(x, next) == [ok |-> TRUE, val |-> x, next |-> next]

NotParsed == [ok |-> FALSE, val |-> JLit(<<>>), next |-> 0]

IsTok(toks, i, c) == i <= Len(toks) /\ toks[i] = Punct(c)

RECURSIVE ParseValue(_, _)
RECURSIVE ParseItems(_, _, _)
RECURSIVE ParsePairs(_, _, _)
\* The JSON value that starts at token i, and the position after it.
ParseValue(toks, i) ==
  IF i > Len(toks) THEN NotParsed
  ELSE IF IsScalar(toks[i]) THEN Parsed(toks[i], i + 1)
  ELSE IF IsTok(toks, i, "[") THEN
    IF IsTok(toks, i + 1, "]") THEN Parsed(JArr(<<>>), i + 2)
    ELSE ParseItems(toks, i + 1, <<>>)
  ELSE IF IsTok(toks, i, "{") THEN
    IF IsTok(toks, i + 1, "}") THEN Parsed(JObj(<<>>), i + 2)
    ELSE ParsePairs(toks, i + 1, <<>>)
  ELSE NotParsed

\* The rest of a list, from the item at token i, after the items `done`.
ParseItems(toks, i, done) ==
  LET item == ParseValue(toks, i)
  IN IF ~item.ok THEN NotParsed
     ELSE IF IsTok(toks, item.next, ",")
       THEN ParseItems(toks, item.next + 1, Append(done, item.val))
     ELSE IF IsTok(toks, item.next, "]")
       THEN Parsed(JArr(Append(done, item.val)), item.next + 1)
     ELSE NotParsed

\* The rest of an object, from the key at token i, after the pairs `done`.
\* Of a key that comes twice, the last value is kept.
ParsePairs(toks, i, done) ==
  IF ~(i <= Len(toks) /\ toks[i][1] = "str" /\ IsTok(toks, i + 1, ":"))
  THEN NotParsed
  ELSE LET item == ParseValue(toks, i + 2)
       IN IF ~item.ok THEN NotParsed
          ELSE IF IsTok(toks, item.next, ",")
            THEN ParsePairs(toks, item.next + 1,
                            DictSet(done, toks[i][2], item.val))
          ELSE IF IsTok(toks, item.next, "}")
            THEN Parsed(JObj(DictSet(done, toks[i][2], item.val)), item.next + 1)
          ELSE NotParsed

\* json.loads: one value and nothing after it.
json_loads(toks) ==
  LET r == ParseValue(toks, 1)
  IN IF r.ok /\ r.next = Len(toks) + 1 THEN Return(r.val)
     ELSE Raise(JSONDecodeError)

\* ------------------------------------------------- Artifact JSON projection
\* tfx.types.artifact.Artifact is a collaborator of this module: its JSON
\* projection is modelled from its contract, as a pair of functions that
\* lose nothing, the parser refusing what is no projection of an artifact.
UriKey == <<"u", "r", "i">>

SplitNamesKey == <<"s", "p", "l", "i", "t", "_", "n", "a", "m", "e", "s">>

\* Artifact.json_dict
json_dict(artifact) ==
  JObj(<< <<UriKey, JStr(artifact.uri)>>,
          <<SplitNamesKey, JStr(artifact.split_names)>> >>)

ArtifactParseError(v) ==
  [kind |-> "ArtifactParseError", what |-> "artifact json", args |-> <<v>>]

\* Artifact.parse_from_json_dict: given the JSON value alone.
parse_from_json_dict(v) ==
  IF /\ v[1] = "obj"
     /\ HasKey(v[2], UriKey) /\ DictGet(v[2], UriKey)[1] = "str"
     /\ HasKey(v[2], SplitNamesKey) /\ DictGet(v[2], SplitNamesKey)[1] = "str"
  THEN Return(Artifact(DictGet(v[2], UriKey)[2], DictGet(v[2], SplitNamesKey)[2]))
  ELSE Raise(ArtifactParseError(v))

\* --------------------------------------------------- artifact-dict codec
AttributeError == [kind |-> "AttributeError", what |-> "items", args |-> <<>>]

TypeError == [kind |-> "TypeError", what |-> "not iterable", args |-> <<>>]

\* `for v in l`: the items of a list, the characters of a string, the keys
\* of a dict; anything else cannot be iterated over.
Iterable(l) == l[1] \in {"arr", "str", "obj"}

Iterate(l) ==
  IF l[1] = "arr" THEN l[2]
  ELSE IF l[1] = "str" THEN [i \in 1..Len(l[2]) |-> JStr(<<l[2][i]>>)]
  ELSE [i \in 1..Len(l[2]) |-> JStr(l[2][i][1])]

\* Mutant: an item that is refused is left out.
RECURSIVE ParseArtifactListSkipping(_, _, _)
ParseArtifactListSkipping(items, i, done) ==
  IF i > Len(items) THEN Return(done)
  ELSE LET a == parse_from_json_dict(items[i])
       IN IF a.ok
          THEN ParseArtifactListSkipping(items, i + 1, Append(done, a.val))
          ELSE ParseArtifactListSkipping(items, i + 1, done)

\* [Artifact.parse_from_json_dict(v) for v in l], from item i on, after the
\* artifacts `done`: the first item that is refused ends it.
RECURSIVE ParseArtifactList(_, _, _)
ParseArtifactList(items, i, done) ==
  IF i > Len(items) THEN Return(done)
  ELSE LET a == parse_from_json_dict(items[i])
       IN IF a.ok THEN ParseArtifactList(items, i + 1, Append(done, a.val))
          ELSE a

\* The loop of parse_artifact_dict, from pair i on, with the dict built so
\* far.
RECURSIVE ParseArtifactPairs(_, _, _)
ParseArtifactPairs(pairs, i, tfx_artifacts) ==
  IF i > Len(pairs) THEN Return(tfx_artifacts)
  ELSE LET k == pairs[i][1]
           l == pairs[i][2]
       IN IF ~Iterable(l) THEN Raise(TypeError)
          ELSE LET artifacts == ParseArtifactList(Iterate(l), 1, <<>>)
               IN IF artifacts.ok
                  THEN ParseArtifactPairs(pairs, i + 1,
                                          DictSet(tfx_artifacts, k, artifacts.val))
                  ELSE artifacts

\* Mutant: a top-level value that is no dict is taken for an empty one.
parse_artifact_dict_lenient(json_str) ==
  LET loaded == json_loads(json_str)
  IN IF ~loaded.ok THEN loaded
     ELSE IF loaded.val[1] # "obj" THEN Return(<<>>)
     ELSE ParseArtifactPairs(loaded.val[2], 1, <<>>)

parse_artifact_dict(json_str) ==
  LET loaded == json_loads(json_str)
  IN IF ~loaded.ok THEN loaded
     ELSE IF loaded.val[1] # "obj" THEN Raise(AttributeError)
     ELSE ParseArtifactPairs(loaded.val[2], 1, <<>>)

Reverse(l) == [j \in 1..Len(l) |-> l[Len(l) + 1 - j]]

\* Mutant: each channel's list is written last artifact first.
RECURSIVE JsonifyPairsReversed(_, _, _)
JsonifyPairsReversed(pairs, i, d) ==
  IF i > Len(pairs) THEN d
  ELSE LET k == pairs[i][1]
           l == Reverse(pairs[i][2])
       IN JsonifyPairsReversed(pairs, i + 1,
            DictSet(d, k, JArr([j \in 1..Len(l) |-> json_dict(l[j])])))

RECURSIVE JsonifyPairs(_, _, _)
JsonifyPairs(pairs, i, d) ==
  IF i > Len(pairs) THEN d
  ELSE LET k == pairs[i][1]
           l == pairs[i][2]
       IN JsonifyPairs(pairs, i + 1,
                       DictSet(d, k, JArr([j \in 1..Len(l) |-> json_dict(l[j])])))

jsonify_artifact_dict(artifact_dict) ==
  json_dumps(JObj(JsonifyPairs(artifact_dict, 1, <<>>)))

\* ------------------------------------------------------------------ inputs
\* The ways of cutting text t into k consecutive pieces, empty ones included.
RECURSIVE Cuts(_, _)
Cuts(t, k) ==
  IF k = 0 THEN (IF Len(t) = 0 THEN {<<>>} ELSE {})
  ELSE IF k = 1 THEN {<<t>>}
  ELSE UNION {{<<SubSeq(t, 1, c)>> \o rest :
                  rest \in Cuts(SubSeq(t, c + 1, Len(t)), k - 1)} :
              c \in 0..Len(t)}

UriInputs == {<<>>, <<"u">>, <<"u", Sep>>}

SplitNamesInputs ==
  {<<>>, <<"a">>, <<"a", "a">>, <<"a", Comma, "b">>, <<"a", Comma>>,
   <<Sep, "a">>}

ArtifactInputs == {Artifact(u, n) : u \in UriInputs, n \in SplitNamesInputs}

SplitInputs == {<<>>, <<"a">>, <<"b">>, <<"a", "a">>, <<Sep, "a">>}

ChannelNames == {<<"x">>, <<"y">>}

\* The orders in which a dict can hold some of the channel names.
KeyOrders ==
  {ks \in UNION {SeqsOfLen(ChannelNames, n) : n \in 0..Cardinality(ChannelNames)} :
     \A i, j \in 1..Len(ks) : ks[i] = ks[j] => i = j}

\* The dict with the keys ks, in this order, and the values f[1], f[2], ...
DictOf(ks, f) == [i \in 1..Len(ks) |-> <<ks[i], f[i]>>]

JsonArtifacts ==
  {Artifact(<<"u">>, <<"a">>), Artifact(<<"v">>, <<"a", Comma, "b">>)}

\* The lists a channel of an artifact dict can hold.
ChannelLists == UNION {SeqsOfLen(JsonArtifacts, n) : n \in 0..MaxEntries}

\* What a stored list can hold: the projections of artifacts, and two
\* values that are no artifact.
StoredEntries ==
  {json_dict(a) : a \in JsonArtifacts}
    \cup {JObj(<< <<UriKey, JLit(<<"t", "r", "u", "e">>)>> >>), JNum(<<"1">>)}

\* What a stored channel can hold instead of a list.
NonListValues ==
  {JNum(<<"1">>), JLit(<<"n", "u", "l", "l">>), JStr(<<>>), JStr(<<"a", "b">>),
   JObj(<<>>), JObj(<< <<UriKey, JStr(<<"u">>)>> >>)}

StoredLists ==
  UNION {{JArr(l) : l \in SeqsOfLen(StoredEntries, n)} : n \in 0..MaxEntries}

\* What a stored channel can hold.
StoredChannelValues == StoredLists \cup NonListValues

\* What a stored text can hold at the top level instead of a dict.
StoredNonDicts == StoredLists \cup {v \in NonListValues : IsScalar(v)}

TokenInputs ==
  {Punct(c) : c \in {"{", "}", "[", "]", ":", ","}}
    \cup {JStr(<<"x">>), JNum(<<"1">>), Junk}

NoValue == JLit(<<>>)

\* ----------------------------------------------------------------- actions
\* A call starts from its arguments: Init draws the arguments of one call,
\* tagged with the function they are for.
SplitInit ==
  /\ op = "input"
  /\ \E n \in 0..MaxTextLen : \E t \in SeqsOfLen(Chars, n) :
       \/ \E k \in 0..MaxSplits : \E s \in Cuts(t, k) :
            arg = [fn |-> "encode_split_names", splits |-> s]
       \/ arg = [fn |-> "decode_split_names", split_names |-> t]
  /\ res = Return(<<>>)
  /\ prev = NoCall

EncodeSplitNames ==
  /\ op = "input"
  /\ arg.fn = "encode_split_names"
  /\ op' = "encode_split_names"
  /\ res' = encode_split_names(arg.splits)
  /\ UNCHANGED <<arg, prev>>

DecodeSplitNames ==
  /\ op = "input"
  /\ arg.fn = "decode_split_names"
  /\ op' = "decode_split_names"
  /\ res' = Return(decode_split_names(arg.split_names))
  /\ UNCHANGED <<arg, prev>>

\* decode_split_names applied to what encode_split_names returned.
DecodeEncoded ==
  /\ op = "encode_split_names"
  /\ res.ok
  /\ op' = "decode_encoded"
  /\ arg' = [fn |-> "decode_split_names", split_names |-> res.val]
  /\ res' = Return(decode_split_names(res.val))
  /\ prev' = [op |-> op, arg |-> arg, res |-> res]

NextSplit == EncodeSplitNames \/ DecodeSplitNames \/ DecodeEncoded

SpecSplit == SplitInit /\ [][NextSplit]_vars

\* ------------------------------------------------------- resolver actions
ResolveInit ==
  /\ op = "input"
  /\ \E n \in 0..MaxArtifacts : \E l \in SeqsOfLen(ArtifactInputs, n) :
       \/ arg = [fn |-> "get_single_instance", artifact_list |-> l]
       \/ arg = [fn |-> "get_single_uri", artifact_list |-> l]
       \/ \E s \in SplitInputs :
            arg = [fn |-> "get_split_uri", artifact_list |-> l, split |-> s]
  /\ res = Return(<<>>)
  /\ prev = NoCall

GetSingleInstance ==
  /\ op = "input"
  /\ arg.fn = "get_single_instance"
  /\ op' = "get_single_instance"
  /\ res' = get_single_instance(arg.artifact_list)
  /\ UNCHANGED <<arg, prev>>

GetSingleUri ==
  /\ op = "input"
  /\ arg.fn = "get_single_uri"
  /\ op' = "get_single_uri"
  /\ res' = get_single_uri(arg.artifact_list)
  /\ UNCHANGED <<arg, prev>>

GetSplitUri ==
  /\ op = "input"
  /\ arg.fn = "get_split_uri"
  /\ op' = "get_split_uri"
  /\ res' = get_split_uri(arg.artifact_list, arg.split)
  /\ UNCHANGED <<arg, prev>>

\* A second call of get_split_uri, on a variation `l` of the list of the
\* first call, which is kept in prev.
SplitUriAgain(how, l) ==
  /\ op' = how
  /\ arg' = [fn |-> "get_split_uri", artifact_list |-> l, split |-> arg.split]
  /\ res' = get_split_uri(l, arg.split)
  /\ prev' = [op |-> op, arg |-> arg, res |-> res]

WithTrailingSep(artifact) ==
  Artifact(artifact.uri \o <<Sep>>, artifact.split_names)

\* The same call with a path separator appended to every artifact's uri.
GetSplitUriTrailingSep ==
  /\ op = "get_split_uri"
  /\ SplitUriAgain("get_split_uri_trailing_sep",
                   [i \in 1..Len(arg.artifact_list) |->
                      WithTrailingSep(arg.artifact_list[i])])

\* The same call with the list in another order.
GetSplitUriReordered ==
  /\ op = "get_split_uri"
  /\ \E p \in Permutations(1..Len(arg.artifact_list)) :
       SplitUriAgain("get_split_uri_reordered",
                     [i \in 1..Len(arg.artifact_list) |-> arg.artifact_list[p[i]]])

\* `split` is a whole comma-separated token of the artifact's split_names.
DeclaresSplit(artifact, split) ==
  LET n == artifact.split_names
  IN /\ Len(n) > 0
     /\ \A i \in 1..Len(split) : split[i] # Comma
     /\ \E i \in 1..(Len(n) + 1) :
          /\ i + Len(split) - 1 <= Len(n)
          /\ SubSeq(n, i, i + Len(split) - 1) = split
          /\ (i = 1 \/ n[i - 1] = Comma)
          /\ (i + Len(split) - 1 = Len(n) \/ n[i + Len(split)] = Comma)

\* The same call with one more artifact, which does not declare the split.
GetSplitUriInserted ==
  /\ op = "get_split_uri"
  /\ Len(arg.artifact_list) < MaxArtifacts
  /\ \E a \in ArtifactInputs, k \in 0..Len(arg.artifact_list) :
       /\ ~DeclaresSplit(a, arg.split)
       /\ SplitUriAgain("get_split_uri_inserted",
                        SubSeq(arg.artifact_list, 1, k) \o <<a>> \o
                        SubSeq(arg.artifact_list, k + 1, Len(arg.artifact_list)))

\* The same call without one of the artifacts that do not declare the split.
GetSplitUriRemoved ==
  /\ op = "get_split_uri"
  /\ \E k \in 1..Len(arg.artifact_list) :
       /\ ~DeclaresSplit(arg.artifact_list[k], arg.split)
       /\ SplitUriAgain("get_split_uri_removed",
                        SubSeq(arg.artifact_list, 1, k - 1) \o
                        SubSeq(arg.artifact_list, k + 1, Len(arg.artifact_list)))

NextResolve ==
  \/ GetSingleInstance
  \/ GetSingleUri
  \/ GetSplitUri
  \/ GetSplitUriTrailingSep
  \/ GetSplitUriReordered
  \/ GetSplitUriInserted
  \/ GetSplitUriRemoved

SpecResolve == ResolveInit /\ [][NextResolve]_vars

\* ---------------------------------------------------- codec actions
JsonInit ==
  /\ op = "input"
  /\ \/ \E ks \in KeyOrders : \E f \in [1..Len(ks) -> ChannelLists] :
          arg = [fn |-> "jsonify_artifact_dict", artifact_dict |-> DictOf(ks, f)]
     \/ \E ks \in KeyOrders : \E f \in [1..Len(ks) -> StoredChannelValues] :
          arg = [fn |-> "parse_artifact_dict",
                 json_str |-> json_dumps(JObj(DictOf(ks, f))),
                 src |-> "value", value |-> JObj(DictOf(ks, f))]
     \/ \E v \in StoredNonDicts :
          arg = [fn |-> "parse_artifact_dict", json_str |-> json_dumps(v),
                 src |-> "value", value |-> v]
     \/ \E n \in 0..MaxTokens : \E t \in SeqsOfLen(TokenInputs, n) :
          arg = [fn |-> "parse_artifact_dict", json_str |-> t,
                 src |-> "tokens", value |-> NoValue]
  /\ res = Return(<<>>)
  /\ prev = NoCall

JsonifyArtifactDict ==
  /\ op = "input"
  /\ arg.fn = "jsonify_artifact_dict"
  /\ op' = "jsonify_artifact_dict"
  /\ res' = Return(jsonify_artifact_dict(arg.artifact_dict))
  /\ UNCHANGED <<arg, prev>>

ParseArtifactDict ==
  /\ op = "input"
  /\ arg.fn = "parse_artifact_dict"
  /\ op' = "parse_artifact_dict"
  /\ res' = parse_artifact_dict(arg.json_str)
  /\ UNCHANGED <<arg, prev>>

\* parse_artifact_dict on the text `t` made from what jsonify_artifact_dict
\* returned, that call being kept in prev.
ParseAfterJsonify(how, t) ==
  /\ op' = how
  /\ arg' = [fn |-> "parse_artifact_dict", json_str |-> t,
             src |-> how, value |-> NoValue]
  /\ res' = parse_artifact_dict(t)
  /\ prev' = [op |-> op, arg |-> arg, res |-> res]

\* parse_artifact_dict applied to what jsonify_artifact_dict returned.
ParseJsonified ==
  /\ op = "jsonify_artifact_dict"
  /\ ParseAfterJsonify("parse_jsonified", res.val)

\* The same with the text cut short.
ParseTruncated ==
  /\ op = "jsonify_artifact_dict"
  /\ \E n \in 0..(Len(res.val) - 1) :
       ParseAfterJsonify("parse_truncated", SubSeq(res.val, 1, n))

\* The same with one punctuation mark missing from the text.
ParseUnpunctuated ==
  /\ op = "jsonify_artifact_dict"
  /\ \E n \in 1..Len(res.val) :
       /\ res.val[n][1] = "punct"
       /\ ParseAfterJsonify("parse_unpunctuated",
                            SubSeq(res.val, 1, n - 1) \o
                            SubSeq(res.val, n + 1, Len(res.val)))

\* The same with characters that are no JSON somewhere in the text.
ParseWithJunk ==
  /\ op = "jsonify_artifact_dict"
  /\ \E n \in 0..Len(res.val) :
       ParseAfterJsonify("parse_with_junk",
                         SubSeq(res.val, 1, n) \o <<Junk>> \o
                         SubSeq(res.val, n + 1, Len(res.val)))

NextJson ==
  \/ JsonifyArtifactDict
  \/ ParseArtifactDict
  \/ ParseJsonified
  \/ ParseTruncated
  \/ ParseUnpunctuated
  \/ ParseWithJunk

SpecJson == JsonInit /\ [][NextJson]_vars

\* ------------------------------------------------- split-name codec claims
\* C1: decode_split_names(encode_split_names(S)) = S for every list S of
\* names that encode_split_names accepts (same elements, order and length);
\* encode_split_names([]) is the empty string and decode_split_names("")
\* the empty list.
C1_RoundTrip ==
  /\ op = "decode_encoded" => res.ok /\ res.val = prev.arg.splits
  /\ (op = "encode_split_names" /\ arg.splits = <<>>) => res = Return(<<>>)
  /\ (op = "decode_split_names" /\ arg.split_names = <<>>) => res = Return(<<>>)

C1_Witness ==
  /\ op = "decode_encoded"
  /\ Len(prev.arg.splits) = 2
  /\ prev.arg.splits[1] # prev.arg.splits[2]
  /\ res.val = prev.arg.splits

\* An alphanumeric first character followed only by alphanumerics, dashes
\* and underscores.
WellFormedSplitName(s) ==
  /\ Len(s) >= 1
  /\ s[1] \in AlnumChars
  /\ \A i \in 2..Len(s) : s[i] \in NameChars

\* C3: encode_split_names(splits) succeeds if and only if every element is
\* an alphanumeric character followed only by alphanumerics, dashes and
\* underscores; on success it returns the elements joined by ',' in order;
\* otherwise it raises an error naming the first invalid element.
C3_EncodeIffWellFormed ==
  op = "encode_split_names" =>
    LET splits == arg.splits
        bad == {i \in 1..Len(splits) : ~WellFormedSplitName(splits[i])}
    IN IF bad = {}
       THEN res = Return(StrJoin(Comma, splits))
       ELSE /\ ~res.ok
            /\ \E k \in bad :
                 /\ \A j \in bad : k <= j
                 /\ res.err.args = <<PyStr(splits[k])>>

NumCommas(s) == Cardinality({i \in 1..Len(s) : s[i] = Comma})

\* C9: decode_split_names never fails and validates nothing: the empty
\* string gives the empty list, and a non-empty string gives its pieces
\* between the commas, in order: one more piece than there are commas, no
\* piece holding a comma, and the pieces put back together with commas
\* being the string.
C9_DecodePermissive ==
  op = "decode_split_names" =>
    /\ res.ok
    /\ IF arg.split_names = <<>>
       THEN res.val = <<>>
       ELSE /\ Len(res.val) = NumCommas(arg.split_names) + 1
            /\ \A i \in 1..Len(res.val) : NumCommas(res.val[i]) = 0
            /\ StrJoin(Comma, res.val) = arg.split_names

C9_Witness ==
  /\ op = "decode_split_names"
  /\ Len(res.val) = 2
  /\ res.val[1] = <<>>
  /\ ~WellFormedSplitName(res.val[2])
  /\ Len(res.val[2]) > 0

\* ------------------------------------------------------- resolver claims
\* The positions of the artifacts whose decoded split names hold `split`.
MatchingPositions(artifact_list, split) ==
  {i \in 1..Len(artifact_list) :
     InList(split, decode_split_names(artifact_list[i].split_names))}

\* C2: get_split_uri succeeds if and only if exactly one artifact of the
\* list has `split` among its decoded split names, and then returns the path
\* of that artifact; with no or several such artifacts it raises.
C2_SplitUriIffExactlyOne ==
  op = "get_split_uri" =>
    LET m == MatchingPositions(arg.artifact_list, arg.split)
    IN /\ res.ok <=> Cardinality(m) = 1
       /\ ~res.ok => res.err.kind = "ValueError"
       /\ res.ok => \A i \in m :
                      res.val = PathJoin(arg.artifact_list[i].uri, arg.split)

C2_Witness ==
  /\ op = "get_split_uri"
  /\ Cardinality(MatchingPositions(arg.artifact_list, arg.split)) = 2
  /\ arg.artifact_list[1].uri # arg.artifact_list[2].uri
  /\ ~res.ok

\* C4: get_single_instance succeeds if and only if the list has length one,
\* and then returns its element; otherwise it raises an error whose message
\* holds the length of the list.
C4_SingleInstance ==
  op = "get_single_instance" =>
    IF Len(arg.artifact_list) = 1
    THEN res = Return(arg.artifact_list[1])
    ELSE /\ ~res.ok
         /\ res.err.kind = "ValueError"
         /\ res.err.args = <<PyInt(Len(arg.artifact_list))>>

C4_Witness ==
  /\ op = "get_single_instance"
  /\ Len(arg.artifact_list) = 2
  /\ ~res.ok

StartsWith(s, prefix) ==
  Len(prefix) <= Len(s) /\ SubSeq(s, 1, Len(prefix)) = prefix

EndsWithSep(s) == Len(s) > 0 /\ s[Len(s)] = Sep

\* The uri of the one artifact of the list that declares the split.
DeclaringUri(artifact_list, split) ==
  LET k == CHOOSE i \in 1..Len(artifact_list) :
             DeclaresSplit(artifact_list[i], split)
  IN artifact_list[k].uri

\* C7 as stated: for every uri and split, a successful get_split_uri returns
\* a path that begins with the artifact's uri, and returns the same path
\* when a separator is appended to the uri.
C7_AnyUriAnySplit ==
  /\ (op = "get_split_uri" /\ res.ok) =>
       StartsWith(res.val, DeclaringUri(arg.artifact_list, arg.split))
  /\ (op = "get_split_uri_trailing_sep" /\ prev.res.ok) => res = prev.res

\* C7 amended: a successful get_split_uri returns the split alone when the
\* split begins with a separator, uri + split when the uri is empty or ends
\* with a separator, and uri + separator + split otherwise; so for a
\* non-empty uri that does not end with a separator and a split that does
\* not begin with one, appending a separator to the uri leaves the result
\* unchanged, and the result begins with the uri whenever the split does
\* not begin with a separator.
C7_JoinedPath ==
  /\ (op = "get_split_uri" /\ res.ok) =>
       LET u == DeclaringUri(arg.artifact_list, arg.split)
           s == arg.split
       IN /\ StartsWith(s, <<Sep>>) => res.val = s
          /\ (~StartsWith(s, <<Sep>>) /\ (u = <<>> \/ EndsWithSep(u))) =>
               res.val = u \o s
          /\ (~StartsWith(s, <<Sep>>) /\ u # <<>> /\ ~EndsWithSep(u)) =>
               res.val = u \o <<Sep>> \o s
          /\ ~StartsWith(s, <<Sep>>) => StartsWith(res.val, u)
  /\ (op = "get_split_uri_trailing_sep" /\ prev.res.ok) =>
       LET u == DeclaringUri(prev.arg.artifact_list, arg.split)
       IN (u # <<>> /\ ~EndsWithSep(u) /\ ~StartsWith(arg.split, <<Sep>>)) =>
            res = prev.res

C7_Witness ==
  /\ op = "get_split_uri_trailing_sep"
  /\ prev.res.ok
  /\ DeclaringUri(prev.arg.artifact_list, arg.split) = <<"u">>
  /\ arg.split = <<"a">>
  /\ res.val = <<"u", Sep, "a">>

DictKeys(pairs) == {pairs[i][1] : i \in 1..Len(pairs)}

\* C5: parse_artifact_dict(jsonify_artifact_dict(C)) has exactly the channel
\* names of C and, for each channel, the list of C: the same length, the
\* same artifacts field for field, in the same order.
C5_DictRoundTrip ==
  op = "parse_jsonified" =>
    LET C == prev.arg.artifact_dict
    IN /\ res.ok
       /\ Len(res.val) = Len(C)
       /\ DictKeys(res.val) = DictKeys(C)
       /\ \A k \in DictKeys(C) :
            /\ Len(DictGet(res.val, k)) = Len(DictGet(C, k))
            /\ \A i \in 1..Len(DictGet(C, k)) :
                 /\ DictGet(res.val, k)[i].uri = DictGet(C, k)[i].uri
                 /\ DictGet(res.val, k)[i].split_names
                      = DictGet(C, k)[i].split_names

C5_Witness ==
  /\ op = "parse_jsonified"
  /\ Len(prev.arg.artifact_dict) = 2
  /\ \E k \in DictKeys(prev.arg.artifact_dict) :
       /\ Len(DictGet(prev.arg.artifact_dict, k)) = 2
       /\ DictGet(prev.arg.artifact_dict, k)[1]
            # DictGet(prev.arg.artifact_dict, k)[2]
       /\ DictGet(res.val, k) = DictGet(prev.arg.artifact_dict, k)

\* The entries of the lists of a stored dict that the Artifact parser
\* refuses, as <<position of the channel, position in the list>>.
RefusedEntries(pairs) ==
  {<<c, i>> \in (1..Len(pairs)) \X (1..MaxEntries + 1) :
     /\ pairs[c][2][1] = "arr"
     /\ i <= Len(pairs[c][2][2])
     /\ ~parse_from_json_dict(pairs[c][2][2][i]).ok}

\* A stored dict all of whose channels hold lists.
AllLists(pairs) == \A c \in 1..Len(pairs) : pairs[c][2][1] = "arr"

Mentions(err, x) == \E n \in 1..Len(err.args) : err.args[n] = x

Count(toks, c) == Cardinality({n \in 1..Len(toks) : toks[n] = Punct(c)})

\* What the text of every JSON object has: braces around it, as many
\* opening as closing brackets and braces, and nothing that is no JSON.
LooksLikeObject(toks) ==
  /\ Len(toks) >= 2
  /\ toks[1] = Punct("{")
  /\ toks[Len(toks)] = Punct("}")
  /\ Count(toks, "{") = Count(toks, "}")
  /\ Count(toks, "[") = Count(toks, "]")
  /\ \A n \in 1..Len(toks) : toks[n] # Junk

\* C8: parse_artifact_dict fails, and returns no dict, for every text that
\* is not valid JSON (the text of a dict cut short, or with a punctuation
\* mark missing, or with characters that are no JSON; any text that has not
\* the looks of an object) and for every text whose top-level value is a
\* list or a scalar.
C8_RefusesNonObjects ==
  /\ (op = "parse_artifact_dict" /\ arg.src = "value" /\ arg.value[1] # "obj") =>
       ~res.ok
  /\ op \in {"parse_truncated", "parse_unpunctuated", "parse_with_junk"} =>
       ~res.ok
  /\ (op = "parse_artifact_dict" /\ ~LooksLikeObject(arg.json_str)) => ~res.ok

C8_Witness ==
  /\ op = "parse_artifact_dict"
  /\ arg.src = "value"
  /\ arg.value = JArr(<<>>)
  /\ ~res.ok
  /\ res.err.kind = "AttributeError"

====
